---- MODULE Spec2Model ----
(***************************************************************************)
(* Model of the JUIT-OLX listing service.  Three servers exist in the      *)
(* repository and each behaviour of the model runs one of them:            *)
(*   "doc"  - src/unnamed/part_000 : MongoDB + Cloudinary server           *)
(*   "file" - src/sever.js 1-435   : products.json kept in a GitHub repo   *)
(*   "min"  - src/sever.js 436-474 : minimal MongoDB server                *)
(* Text values on which the code pattern-matches, trims or parses are      *)
(* sequences of one-character strings; <<>> is the empty (or absent)       *)
(* string.  A handler is one action per await it resumes from: the action  *)
(* is the completion of the awaited backend call together with the         *)
(* synchronous code that follows it up to the next await or the response.  *)
(* The parameter fault of an action says that the backend call the action  *)
(* completes fails in transit; it is drawn only where a call is made.      *)
(***************************************************************************)
EXTENDS Integers, Sequences, FiniteSets

VARIABLES
  variant,         \* which of the three servers is running
  clock,           \* the value Date.now() returns at the moment
  file,            \* file-backed: products.json in the repository
  db,              \* doc / min: the Product collection (a set of documents)
  images,          \* doc: public ids of the images held by the image host
  pendingDestroy,  \* doc: destroy calls issued without await, not yet served
  nextOid,         \* doc / min: next ObjectId the driver generates
  reqs,            \* requests suspended at an await, by slot
  out,             \* the request the last step answered, with its response
  issued,          \* history: ids given to listings whose create succeeded
  deletedOk,       \* history: ids whose delete was answered with success
  inputs           \* history, doc: the request bodies of the creates that
                   \* succeeded, each with the id answered

vars == <<variant, clock, file, db, images, pendingDestroy, nextOid, reqs,
          out, issued, deletedOk, inputs>>

(***************************************************************************)
(* Bounds of the model.                                                    *)
(***************************************************************************)
MaxReq == 2        \* requests that may be suspended at the same time
MaxTicks == 1      \* clock ticks after start
MaxProducts == 2   \* listings a store may hold
MaxListed == 3     \* listings in a store that is only listed

Slots == 1..MaxReq

(***************************************************************************)
(* Strings.                                                                *)
(***************************************************************************)
Digit == {"0", "1", "2", "3", "4", "5", "6", "7", "8", "9"}

DigitVal(c) ==
  CASE c = "0" -> 0 [] c = "1" -> 1 [] c = "2" -> 2 [] c = "3" -> 3
    [] c = "4" -> 4 [] c = "5" -> 5 [] c = "6" -> 6 [] c = "7" -> 7
    [] c = "8" -> 8 [] c = "9" -> 9

\* JavaScript truthiness of a string-valued field: absent and "" are falsy.
Truthy(s) == Len(s) > 0

RECURSIVE TrimStart(_)
TrimStart(s) ==
  IF s # <<>> /\ Head(s) = " " THEN TrimStart(Tail(s)) ELSE s

RECURSIVE TrimEnd(_)
TrimEnd(s) ==
  IF s # <<>> /\ s[Len(s)] = " " THEN TrimEnd(SubSeq(s, 1, Len(s) - 1)) ELSE s

\* String.prototype.trim
Trim(s) == TrimEnd(TrimStart(s))

RECURSIVE DigitsValue(_, _)
DigitsValue(s, acc) ==
  IF s # <<>> /\ Head(s) \in Digit
    THEN DigitsValue(Tail(s), 10 * acc + DigitVal(Head(s)))
    ELSE acc

\* parseInt on an unsigned decimal text: leading blanks are skipped, the
\* longest digit prefix is read, and a text with no digit prefix gives NaN.
NaN == "NaN"
IsNumeric(s) == TrimStart(s) # <<>> /\ Head(TrimStart(s)) \in Digit
ParseInt(s) == IF IsNumeric(s) THEN DigitsValue(TrimStart(s), 0) ELSE NaN

\* /^91\d{10}$/.test(w)
WhatsappOk(w) ==
  /\ Len(w) = 12
  /\ w[1] = "9"
  /\ w[2] = "1"
  /\ \A i \in 3..12 : w[i] \in Digit


\* the code unit of a character, for the characters the model's texts use
Code(c) ==
  CASE c = " " -> 32
    [] c \in Digit -> 48 + DigitVal(c)
    [] c = "A" -> 65 [] c = "D" -> 68 [] c = "E" -> 69
    [] c = "a" -> 97 [] c = "d" -> 100 [] c = "e" -> 101
    [] c = "i" -> 105 [] c = "x" -> 120

\* a < b in the binary order the database sorts strings by
RECURSIVE StrLess(_, _)
StrLess(a, b) ==
  IF b = <<>> THEN FALSE
  ELSE IF a = <<>> THEN TRUE
  ELSE IF Code(Head(a)) # Code(Head(b)) THEN Code(Head(a)) < Code(Head(b))
  ELSE StrLess(Tail(a), Tail(b))

\* toLowerCase of one character
Lower(c) == IF Code(c) \in 65..90 THEN
              CHOOSE l \in {"a", "d", "e"} : Code(l) = Code(c) + 32
            ELSE c

\* { $regex: t, $options: 'i' } for a pattern of plain letters: s holds t
\* somewhere, letter case ignored
RegexI(s, t) ==
  \E i \in 1..(Len(s) - Len(t) + 1) :
    \A k \in 1..Len(t) : Lower(s[i + k - 1]) = Lower(t[k])


(***************************************************************************)
(* Request bodies.  Every create variant reads the same six fields and an  *)
(* image: the uploaded file (multipart), imageBase64 or imageUrl.          *)
(***************************************************************************)
W_OK == <<"9", "1", "9", "8", "7", "6", "5", "4", "3", "2", "1", "0">>
W_TEN == <<"1", "2", "3", "4", "5", "6", "7", "8", "9", "0">>
W_LONG == W_OK \o <<"7">>

Conditions == {"Brand New", "Like New", "Excellent", "Good", "Fair"}

Names == {<<>>, <<"D">>}
Prices == {<<"5">>}
Whatsapps == {W_TEN, W_LONG, W_OK}
Images == {<<>>, <<"i">>}

AllBodies ==
  [name : Names, price : Prices, seller : {<<"A">>}, whatsapp : Whatsapps,
   condition : {"Good"}, description : {<<"x">>}, image : Images]

\* the over-long number is sent only in otherwise complete requests
Bodies ==
  {b \in AllBodies : b.whatsapp = W_LONG => Truthy(b.name) /\ Truthy(b.image)}

NoBody ==
  [name |-> <<>>, price |-> <<>>, seller |-> <<>>, whatsapp |-> <<>>,
   condition |-> "", description |-> <<>>, image |-> <<>>]

\* !name || !price || !seller || !whatsapp || !condition || !description
FieldsPresent(b) ==
  /\ Truthy(b.name)
  /\ Truthy(b.price)
  /\ Truthy(b.seller)
  /\ Truthy(b.whatsapp)
  /\ b.condition # ""
  /\ Truthy(b.description)

(***************************************************************************)
(* Requests and responses.                                                 *)
(***************************************************************************)
\* A request suspended at an await (pc names the call awaited), or answered
\* (pc = "done"), or a free slot (pc = "idle").
\*   content, hasSha, sha : file-backed, the body of the PUT being sent
\*   product              : <<>> or <<p>>, the listing created / found
\*   upd                  : the body of an update request
\*   query                : the query string of a list request
\*   result               : the listings a list request returned
\*   stale                : the conditional write met a token other than its own
\*   fault                : the call the answer follows failed in transit
\*   destroyed            : doc delete, the image destroy call has succeeded
NoQuery ==
  [search |-> <<>>, minPrice |-> <<>>, maxPrice |-> <<>>, condition |-> "",
   sort |-> ""]

NoReq ==
  [handler |-> "none", pc |-> "idle", body |-> NoBody, id |-> <<>>,
   query |-> NoQuery,
   content |-> <<>>, hasSha |-> FALSE, sha |-> <<>>, product |-> <<>>,
   upd |-> [field |-> "", text |-> <<>>, num |-> 0],
   result |-> <<>>, stale |-> FALSE, fault |-> FALSE, destroyed |-> FALSE,
   status |-> 0, msg |-> ""]

NewReq(h, b, i) == [NoReq EXCEPT !.handler = h, !.body = b, !.id = i]

\* res.status(s).json({... message / error: m ...})
Answer(q, s, m) == [q EXCEPT !.pc = "done", !.status = s, !.msg = m]


(***************************************************************************)
(* File-backed server (src/sever.js 1-435).                                *)
(***************************************************************************)
\* The three listings the list handler answers with when products.json
\* cannot be read (their text fields are not read by any handler).
demoProducts(now) ==
  << [id |-> 1, name |-> <<"L">>, price |-> 85000, seller |-> <<"A">>,
      whatsapp |-> W_OK, condition |-> "Like New", description |-> <<"x">>,
      imagePath |-> <<"i">>, dateAdded |-> now],
     [id |-> 2, name |-> <<"S">>, price |-> 4500, seller |-> <<"P">>,
      whatsapp |-> W_OK, condition |-> "Good", description |-> <<"x">>,
      imagePath |-> <<"i">>, dateAdded |-> now],
     [id |-> 3, name |-> <<"M">>, price |-> 25000, seller |-> <<"R">>,
      whatsapp |-> W_OK, condition |-> "Excellent", description |-> <<"x">>,
      imagePath |-> <<"i">>, dateAdded |-> now] >>

\* Date.now() is a count of milliseconds since 1970: every reading is far
\* above the ids of the demo listings.
Epoch == Len(demoProducts(0)) + 1
Times == Epoch..(Epoch + MaxTicks)

\* products.json in the repository: absent, or a JSON array of listings.
\* The listings are held as the records JSON.parse gives back: every field
\* a handler writes is a string or an integer, which JSON.stringify, base64
\* and JSON.parse return unchanged.
NoFile == [exists |-> FALSE, content |-> <<>>]

\* githubRequest(endpoint) with the default method GET: the file's content
\* and its blob sha (a hash of the content, modelled by the content), or a
\* thrown error when the response is not ok (no such file, or a failure in
\* transit).
GithubGet(fault) ==
  IF fault \/ ~file.exists
    THEN [ok |-> FALSE, content |-> <<>>]
    ELSE [ok |-> TRUE, content |-> file.content]

\* githubRequest(endpoint, {method: 'PUT', ...}): the repository accepts
\* the new content of an existing file only with the sha of the blob it
\* replaces, and content for a new file only without one.
GithubPutOk(hasSha, sha, fault) ==
  /\ ~fault
  /\ IF file.exists THEN hasSha /\ sha = file.content ELSE ~hasSha

\* a validation that does not look at the number
FileValidateNoNumber(b) ==
  IF ~(FieldsPresent(b) /\ Truthy(b.image))
    THEN "All fields are required"
    ELSE ""

\* the create handler's validation, "" when the request passes
FileValidate(b) ==
  IF ~(FieldsPresent(b) /\ Truthy(b.image))
    THEN "All fields are required"
  ELSE IF ~WhatsappOk(b.whatsapp)
    THEN "WhatsApp number should start with 91 followed by 10 digits"
  ELSE ""

FileNewProduct(b) ==
  [id |-> clock, name |-> Trim(b.name), price |-> ParseInt(b.price),
   seller |-> Trim(b.seller), whatsapp |-> Trim(b.whatsapp),
   condition |-> b.condition, description |-> Trim(b.description),
   imagePath |-> b.image, dateAdded |-> clock]

\* the answer of a handler that does not look at the outcome of the PUT
FileCreateAnswerAlways(ok) == <<200, "Product added successfully">>

\* status and message of the answer that follows the PUT
FileCreateAnswer(ok) ==
  IF ok THEN <<200, "Product added successfully">>
        ELSE <<500, "Failed to add product">>

FileDeleteAnswer(ok) ==
  IF ok THEN <<200, "Product deleted successfully">>
        ELSE <<500, "Failed to delete product">>

\* currentProducts.findIndex(p => p.id === productId), 0 for -1
FindIndex(ps, pid) ==
  IF \E i \in 1..Len(ps) : ps[i].id = pid
    THEN CHOOSE i \in 1..Len(ps) :
           ps[i].id = pid /\ \A j \in 1..(i - 1) : ps[j].id # pid
    ELSE 0

\* currentProducts.splice(i, 1)
Splice(ps, i) == SubSeq(ps, 1, i - 1) \o SubSeq(ps, i + 1, Len(ps))

Ids(ps) == {ps[i].id : i \in 1..Len(ps)}

FileUnchanged ==
  UNCHANGED <<variant, clock, db, images, pendingDestroy, nextOid, inputs>>

\* a request is suspended in the first free slot
FreeSlot(r) ==
  /\ reqs[r].pc = "idle"
  /\ \A k \in 1..(r - 1) : reqs[k].pc # "idle"

\* POST /api/products up to the PUT: validation, the read of products.json
\* (a failed read is taken for a missing file), the new listing.
FileCreate(r, b, fault) ==
  /\ variant = "file"
  /\ FreeSlot(r)
  /\ fault => FileValidate(b) = ""
  /\ LET q == NewReq("create", b, <<>>)
         m == FileValidate(b)
         rd == GithubGet(fault)
         cur == IF rd.ok THEN rd.content ELSE <<>>
         newProduct == FileNewProduct(b)
     IN IF m # ""
          THEN /\ out' = Answer(q, 400, m)
               /\ UNCHANGED reqs
          ELSE /\ Len(cur) < MaxProducts
               /\ reqs' = [reqs EXCEPT ![r] =
                    [q EXCEPT !.pc = "put",
                              !.content = <<newProduct>> \o cur,
                              !.hasSha = rd.ok, !.sha = rd.content,
                              !.product = <<newProduct>>]]
               /\ out' = NoReq
  /\ UNCHANGED <<file, issued, deletedOk>>
  /\ FileUnchanged

\* POST /api/products from the PUT on
FileCreatePut(r, fault) ==
  /\ variant = "file"
  /\ reqs[r].pc = "put"
  /\ reqs[r].handler = "create"
  /\ LET q == reqs[r]
         ok == GithubPutOk(q.hasSha, q.sha, fault)
         a == FileCreateAnswer(ok)
     IN /\ file' = IF ok THEN [exists |-> TRUE, content |-> q.content] ELSE file
        /\ out' = Answer([q EXCEPT !.fault = fault,
                                   !.stale = file.exists /\ q.sha # file.content],
                         a[1], a[2])
        /\ issued' = IF ok THEN issued \cup {q.product[1].id} ELSE issued
  /\ reqs' = [reqs EXCEPT ![r] = NoReq]
  /\ UNCHANGED deletedOk
  /\ FileUnchanged

\* DELETE /api/products/:id up to the PUT
FileDelete(r, param, fault) ==
  /\ variant = "file"
  /\ FreeSlot(r)
  /\ LET q == [NewReq("delete", NoBody, param) EXCEPT !.fault = fault]
         rd == GithubGet(fault)
         productIndex == IF IsNumeric(param)
                           THEN FindIndex(rd.content, ParseInt(param))
                           ELSE 0
     IN IF ~rd.ok
          THEN /\ out' = Answer(q, 500, "Failed to delete product")
               /\ UNCHANGED reqs
        ELSE IF productIndex = 0
          THEN /\ out' = Answer(q, 404, "Product not found")
               /\ UNCHANGED reqs
        ELSE /\ reqs' = [reqs EXCEPT ![r] =
                    [q EXCEPT !.pc = "put", !.hasSha = TRUE, !.sha = rd.content,
                              !.content = Splice(rd.content, productIndex),
                              !.product = <<rd.content[productIndex]>>]]
             /\ out' = NoReq
  /\ UNCHANGED <<file, issued, deletedOk>>
  /\ FileUnchanged

\* DELETE /api/products/:id from the PUT on
FileDeletePut(r, fault) ==
  /\ variant = "file"
  /\ reqs[r].pc = "put"
  /\ reqs[r].handler = "delete"
  /\ LET q == reqs[r]
         ok == GithubPutOk(q.hasSha, q.sha, fault)
         a == FileDeleteAnswer(ok)
     IN /\ file' = IF ok THEN [exists |-> TRUE, content |-> q.content] ELSE file
        /\ out' = Answer([q EXCEPT !.fault = fault,
                                   !.stale = file.exists /\ q.sha # file.content],
                         a[1], a[2])
        /\ deletedOk' = IF ok THEN deletedOk \cup {q.product[1].id} ELSE deletedOk
  /\ reqs' = [reqs EXCEPT ![r] = NoReq]
  /\ UNCHANGED issued
  /\ FileUnchanged

\* GET /api/products: the stored listings, or the demo listings when the
\* read fails
FileList(fault) ==
  /\ variant = "file"
  /\ LET q == [NewReq("list", NoBody, <<>>) EXCEPT !.fault = fault]
         rd == GithubGet(fault)
     IN out' = Answer([q EXCEPT !.result =
                         IF rd.ok THEN rd.content ELSE demoProducts(clock)],
                      200, IF rd.ok THEN "github" ELSE "demo")
  /\ UNCHANGED <<file, reqs, issued, deletedOk>>
  /\ FileUnchanged

\* time passes
Tick ==
  /\ clock < Epoch + MaxTicks
  /\ clock' = clock + 1
  /\ out' = NoReq
  /\ UNCHANGED <<variant, file, db, images, pendingDestroy, nextOid, reqs,
                 issued, deletedOk, inputs>>

\* the ids a path may carry: every clock reading, and a text that is no number
FileParams == {<<"x">>} \cup {<<c>> : c \in {d \in Digit : DigitVal(d) \in Times}}

InitFile ==
  /\ variant = "file"
  /\ clock = Epoch
  /\ file \in {NoFile, [exists |-> TRUE, content |-> <<>>]}
  /\ db = {}
  /\ images = {}
  /\ pendingDestroy = {}
  /\ nextOid = 1
  /\ reqs = [r \in Slots |-> NoReq]
  /\ out = NoReq
  /\ issued = {}
  /\ deletedOk = {}
  /\ inputs = {}



(***************************************************************************)
(* Document-store server (src/unnamed/part_000).                           *)
(***************************************************************************)
\* ObjectIds the driver may generate in one run of the model
MaxOid == MaxProducts

\* public_id: 'product_' + Date.now(); the image host is modelled by the set
\* of public ids it holds, a public id by the clock reading in its name.
PublicId(now) == now

\* the multipart validation with the number checked before the image
DocValidateNumberFirst(b) ==
  IF ~FieldsPresent(b)
    THEN "All fields are required"
  ELSE IF ~WhatsappOk(b.whatsapp)
    THEN "Invalid WhatsApp number format"
  ELSE IF ~Truthy(b.image)
    THEN "Product image is required"
  ELSE ""

\* the multipart handler's validation, "" when the request passes
DocValidate(b) ==
  IF ~FieldsPresent(b)
    THEN "All fields are required"
  ELSE IF ~Truthy(b.image)
    THEN "Product image is required"
  ELSE IF ~WhatsappOk(b.whatsapp)
    THEN "Invalid WhatsApp number format"
  ELSE ""

\* the base64 handler's validation, "" when the request passes
Doc64Validate(b) ==
  IF ~(FieldsPresent(b) /\ Truthy(b.image))
    THEN "All fields including image are required"
  ELSE IF ~WhatsappOk(b.whatsapp)
    THEN "Invalid WhatsApp number format"
  ELSE ""

\* productData with the seller taken from the name field
DocNewProductSellerFromName(b, pid) ==
  [id |-> nextOid, name |-> Trim(b.name), price |-> ParseInt(b.price),
   seller |-> Trim(b.name), whatsapp |-> Trim(b.whatsapp),
   condition |-> b.condition, description |-> Trim(b.description),
   imagePath |-> b.image, imagePublicId |-> <<pid>>, dateAdded |-> clock,
   isActive |-> TRUE]

\* new Product(productData): the document with its generated _id and the
\* schema defaults (dateAdded: Date.now, isActive: true)
DocNewProduct(b, pid) ==
  [id |-> nextOid, name |-> Trim(b.name), price |-> ParseInt(b.price),
   seller |-> Trim(b.seller), whatsapp |-> Trim(b.whatsapp),
   condition |-> b.condition, description |-> Trim(b.description),
   imagePath |-> b.image, imagePublicId |-> <<pid>>, dateAdded |-> clock,
   isActive |-> TRUE]

\* productSchema's validators, run by save() and, with runValidators, by
\* findByIdAndUpdate
SchemaOk(d) ==
  /\ Truthy(d.name)
  /\ d.price >= 1
  /\ Truthy(d.seller)
  /\ WhatsappOk(d.whatsapp)
  /\ d.condition \in Conditions
  /\ Truthy(d.description)
  /\ Truthy(d.imagePath)

\* casting a path id to an ObjectId (a text that is none makes the query throw)
ValidOid(param) == IsNumeric(param) /\ Len(param) = 1
Oid(param) == DigitVal(param[1])

\* Product.findById(id): <<>> for null
FindById(oid) ==
  IF \E d \in db : d.id = oid THEN <<CHOOSE d \in db : d.id = oid>> ELSE <<>>

\* the status the multipart handler answers with after save()
DocSaveStatus(ok) == IF ok THEN 201 ELSE 500

\* a catch block that leaves the uploaded image where it is
DocCompensateNone(q) == {}

\* the catch block of the multipart handler: the destroy calls it issues
DocCompensate(q) ==
  IF q.product[1].imagePublicId # <<>>
    THEN {q.product[1].imagePublicId[1]}
    ELSE {}

DocUnchanged == UNCHANGED <<variant, clock, file, inputs>>

\* POST /api/products: upload.single('image') stores the uploaded file on the
\* image host, then the handler validates and calls save()
DocCreate(r, b, fault) ==
  /\ variant = "doc"
  /\ FreeSlot(r)
  /\ fault => Truthy(b.image)
  /\ LET q == [NewReq("create", b, <<>>) EXCEPT !.fault = fault]
         m == DocValidate(b)
         uploaded == IF Truthy(b.image) /\ ~fault THEN {PublicId(clock)} ELSE {}
     IN /\ images' = images \cup uploaded
        /\ IF Truthy(b.image) /\ fault
             THEN /\ out' = Answer(q, 500, "Internal server error")
                  /\ UNCHANGED <<reqs, nextOid>>
           ELSE IF m # ""
             THEN /\ out' = Answer(q, 400, m)
                  /\ UNCHANGED <<reqs, nextOid>>
           ELSE /\ nextOid <= MaxOid
                /\ reqs' = [reqs EXCEPT ![r] =
                     [q EXCEPT !.pc = "save",
                               !.product = <<DocNewProduct(b, PublicId(clock))>>]]
                /\ nextOid' = nextOid + 1
                /\ out' = NoReq
  /\ UNCHANGED <<db, pendingDestroy, issued, deletedOk>>
  /\ DocUnchanged

\* POST /api/products from save() on
DocCreateSave(r, fault) ==
  /\ variant = "doc"
  /\ reqs[r].pc = "save"
  /\ reqs[r].handler = "create"
  /\ LET q == reqs[r]
         d == q.product[1]
         ok == ~fault /\ SchemaOk(d)
     IN /\ db' = IF ok THEN db \cup {d} ELSE db
        /\ pendingDestroy' = IF ok THEN pendingDestroy
                                   ELSE pendingDestroy \cup DocCompensate(q)
        /\ out' = Answer([q EXCEPT !.fault = fault], DocSaveStatus(ok),
                         IF ok THEN "" ELSE "Failed to save product")
        /\ issued' = IF ok THEN issued \cup {d.id} ELSE issued
        /\ inputs' = IF ok THEN inputs \cup {[id |-> d.id, body |-> q.body]}
                           ELSE inputs
  /\ reqs' = [reqs EXCEPT ![r] = NoReq]
  /\ UNCHANGED <<images, nextOid, deletedOk>>
  /\ UNCHANGED <<variant, clock, file>>

\* cloudinary.uploader.destroy(...) called without await is served later
DestroyServed(pid, fault) ==
  /\ variant = "doc"
  /\ pid \in pendingDestroy
  /\ pendingDestroy' = pendingDestroy \ {pid}
  /\ images' = IF fault THEN images ELSE images \ {pid}
  /\ out' = NoReq
  /\ UNCHANGED <<db, nextOid, reqs, issued, deletedOk>>
  /\ DocUnchanged

\* POST /api/products/base64 up to save(): validation, the upload
Doc64Create(r, b, fault) ==
  /\ variant = "doc"
  /\ FreeSlot(r)
  /\ fault => Doc64Validate(b) = ""
  /\ LET q == [NewReq("create64", b, <<>>) EXCEPT !.fault = fault]
         m == Doc64Validate(b)
     IN IF m # ""
          THEN /\ out' = Answer(q, 400, m)
               /\ UNCHANGED <<reqs, nextOid, images>>
        ELSE IF fault
          THEN /\ out' = Answer(q, 500, "Failed to save product")
               /\ UNCHANGED <<reqs, nextOid, images>>
        ELSE /\ nextOid <= MaxOid
             /\ images' = images \cup {PublicId(clock)}
             /\ reqs' = [reqs EXCEPT ![r] =
                  [q EXCEPT !.pc = "save",
                            !.product = <<DocNewProduct(b, PublicId(clock))>>]]
             /\ nextOid' = nextOid + 1
             /\ out' = NoReq
  /\ UNCHANGED <<db, pendingDestroy, issued, deletedOk>>
  /\ DocUnchanged

\* POST /api/products/base64 from save() on
Doc64CreateSave(r, fault) ==
  /\ variant = "doc"
  /\ reqs[r].pc = "save"
  /\ reqs[r].handler = "create64"
  /\ LET q == reqs[r]
         d == q.product[1]
         ok == ~fault /\ SchemaOk(d)
     IN /\ db' = IF ok THEN db \cup {d} ELSE db
        /\ out' = Answer([q EXCEPT !.fault = fault], IF ok THEN 201 ELSE 500,
                         IF ok THEN "" ELSE "Failed to save product")
        /\ issued' = IF ok THEN issued \cup {d.id} ELSE issued
        /\ inputs' = IF ok THEN inputs \cup {[id |-> d.id, body |-> q.body]}
                           ELSE inputs
  /\ reqs' = [reqs EXCEPT ![r] = NoReq]
  /\ UNCHANGED <<images, pendingDestroy, nextOid, deletedOk>>
  /\ UNCHANGED <<variant, clock, file>>


\* PUT bodies: one field each, the text or the number it carries
Updates ==
  { [field |-> "whatsapp", text |-> W_TEN, num |-> 0],
    [field |-> "dateAdded", text |-> <<>>, num |-> Epoch] }

\* the document after $set of the request body
ApplyUpdate(d, u) ==
  CASE u.field = "whatsapp" -> [d EXCEPT !.whatsapp = u.text]
    [] u.field = "price" -> [d EXCEPT !.price = u.num]
    [] u.field = "dateAdded" -> [d EXCEPT !.dateAdded = u.num]
    [] OTHER -> d

\* runValidators: true runs the validators of the paths the update sets
UpdateOk(u) ==
  CASE u.field = "whatsapp" -> WhatsappOk(u.text)
    [] u.field = "price" -> u.num >= 1
    [] OTHER -> TRUE

\* PUT /api/products/:id
DocUpdate(param, u, fault) ==
  /\ variant = "doc"
  /\ LET q == [NewReq("update", NoBody, param) EXCEPT !.fault = fault, !.upd = u]
         found == IF ValidOid(param) THEN FindById(Oid(param)) ELSE <<>>
     IN IF fault \/ ~ValidOid(param) \/ ~UpdateOk(u)
          THEN /\ out' = Answer(q, 500, "Failed to update product")
               /\ UNCHANGED db
        ELSE IF found = <<>>
          THEN /\ out' = Answer(q, 404, "Product not found")
               /\ UNCHANGED db
        ELSE /\ db' = (db \ {found[1]}) \cup {ApplyUpdate(found[1], u)}
             /\ out' = Answer([q EXCEPT !.product = <<ApplyUpdate(found[1], u)>>],
                              200, "")
  /\ UNCHANGED <<images, pendingDestroy, nextOid, reqs, issued, deletedOk>>
  /\ DocUnchanged

\* DELETE /api/products/:id up to the image destroy: findById
DocDelete(r, param, fault) ==
  /\ variant = "doc"
  /\ FreeSlot(r)
  /\ LET q == [NewReq("delete", NoBody, param) EXCEPT !.fault = fault]
         found == IF ValidOid(param) THEN FindById(Oid(param)) ELSE <<>>
     IN IF fault \/ ~ValidOid(param)
          THEN /\ out' = Answer(q, 500, "Failed to delete product")
               /\ UNCHANGED reqs
        ELSE IF found = <<>>
          THEN /\ out' = Answer(q, 404, "Product not found")
               /\ UNCHANGED reqs
        ELSE /\ reqs' = [reqs EXCEPT ![r] =
                  [q EXCEPT !.product = found,
                            !.pc = IF found[1].imagePublicId # <<>>
                                     THEN "destroy" ELSE "remove"]]
             /\ out' = NoReq
  /\ UNCHANGED <<db, images, pendingDestroy, nextOid, issued, deletedOk>>
  /\ DocUnchanged

\* DELETE /api/products/:id: await cloudinary.uploader.destroy(...)
DocDeleteDestroy(r, fault) ==
  /\ variant = "doc"
  /\ reqs[r].pc = "destroy"
  /\ LET q == reqs[r]
     IN IF fault
          THEN /\ out' = Answer([q EXCEPT !.fault = TRUE], 500,
                                "Failed to delete product")
               /\ reqs' = [reqs EXCEPT ![r] = NoReq]
               /\ UNCHANGED images
          ELSE /\ images' = images \ {q.product[1].imagePublicId[1]}
               /\ reqs' = [reqs EXCEPT ![r] =
                    [q EXCEPT !.pc = "remove", !.destroyed = TRUE]]
               /\ out' = NoReq
  /\ UNCHANGED <<db, pendingDestroy, nextOid, issued, deletedOk>>
  /\ DocUnchanged

\* DELETE /api/products/:id: await Product.findByIdAndDelete(...)
DocDeleteRemove(r, fault) ==
  /\ variant = "doc"
  /\ reqs[r].pc = "remove"
  /\ LET q == reqs[r]
         oid == q.product[1].id
     IN IF fault
          THEN /\ out' = Answer([q EXCEPT !.fault = TRUE], 500,
                                "Failed to delete product")
               /\ UNCHANGED <<db, deletedOk>>
          ELSE /\ db' = {d \in db : d.id # oid}
               /\ out' = Answer(q, 200, "Product deleted successfully")
               /\ deletedOk' = deletedOk \cup {oid}
  /\ reqs' = [reqs EXCEPT ![r] = NoReq]
  /\ UNCHANGED <<images, pendingDestroy, nextOid, issued>>
  /\ DocUnchanged

\* GET /api/products/:id
DocGet(param, fault) ==
  /\ variant = "doc"
  /\ LET q == [NewReq("get", NoBody, param) EXCEPT !.fault = fault]
         found == IF ValidOid(param) THEN FindById(Oid(param)) ELSE <<>>
     IN out' = IF fault \/ ~ValidOid(param)
                 THEN Answer(q, 500, "Failed to fetch product")
               ELSE IF found = <<>>
                 THEN Answer(q, 404, "Product not found")
               ELSE Answer([q EXCEPT !.product = found], 200, "")
  /\ UNCHANGED <<db, images, pendingDestroy, nextOid, reqs, issued, deletedOk>>
  /\ DocUnchanged

\* the filter the list handler builds from the query string
Matches(d, query) ==
  /\ d.isActive
  /\ Truthy(query.search) =>
       \/ RegexI(d.name, query.search)
       \/ RegexI(d.description, query.search)
       \/ RegexI(d.seller, query.search)
  /\ Truthy(query.minPrice) => d.price >= ParseInt(query.minPrice)
  /\ Truthy(query.maxPrice) => d.price <= ParseInt(query.maxPrice)
  /\ query.condition # "" => d.condition = query.condition

\* sortOption with price_high sorting upwards, as price_low does
sortOptionPriceHighAscending(sort) ==
  IF sort = "name" THEN [key |-> "name", dir |-> 1]
  ELSE IF sort = "price_high" THEN [key |-> "price", dir |-> 1]
  ELSE IF sort = "price_low" THEN [key |-> "price", dir |-> 1]
  ELSE [key |-> "dateAdded", dir |-> -1]

\* sortOption: { dateAdded: -1 } unless sort is one of the three keys
sortOption(sort) ==
  IF sort = "name" THEN [key |-> "name", dir |-> 1]
  ELSE IF sort = "price_high" THEN [key |-> "price", dir |-> -1]
  ELSE IF sort = "price_low" THEN [key |-> "price", dir |-> 1]
  ELSE [key |-> "dateAdded", dir |-> -1]

\* document a may stand before document b in a result sorted by opt
MayPrecede(a, b, opt) ==
  IF opt.key = "name" THEN ~StrLess(b.name, a.name)
  ELSE IF opt.key = "price"
    THEN IF opt.dir = 1 THEN a.price <= b.price ELSE a.price >= b.price
  ELSE a.dateAdded >= b.dateAdded

\* find(...).sort(opt): the documents of ds in an order opt allows; the
\* order of documents with equal keys is the database's choice
Sorted(ds, opt) ==
  {res \in [1..Cardinality(ds) -> ds] :
     /\ \A i, j \in 1..Cardinality(ds) : i # j => res[i] # res[j]
     /\ \A i, j \in 1..Cardinality(ds) :
          i < j => MayPrecede(res[i], res[j], opt)}

\* GET /api/products
DocList(query, fault) ==
  /\ variant = "doc"
  /\ LET q == [NewReq("list", NoBody, <<>>) EXCEPT !.fault = fault,
                                                    !.query = query]
     IN IF fault
          THEN out' = Answer(q, 500, "Failed to fetch products")
          ELSE \E res \in Sorted({d \in db : Matches(d, query)},
                                 sortOption(query.sort)) :
                 out' = Answer([q EXCEPT !.result = res], 200, "")
  /\ UNCHANGED <<db, images, pendingDestroy, nextOid, reqs, issued, deletedOk>>
  /\ DocUnchanged

\* the query strings of the list requests: every sort key, one that is none
\* and none at all, alone or with one filter
Sorts == {"", "price_low", "price_high", "name", "newest"}
SortQueries == {[NoQuery EXCEPT !.sort = s] : s \in Sorts}
Queries ==
  {q \in [search : {<<>>, <<"d">>}, minPrice : {<<>>, <<"6">>},
          maxPrice : {<<>>, <<"6">>}, condition : {"", "Good"}, sort : Sorts] :
     Cardinality({k \in {"search", "minPrice", "maxPrice", "condition"} :
                    q[k] # NoQuery[k]}) <= 1}

\* the ids a path may carry: every ObjectId, and a text that is none
DocParams == {<<"x">>} \cup {<<c>> : c \in {d \in Digit : DigitVal(d) \in 1..MaxOid}}

(***************************************************************************)
(* Minimal server (src/sever.js 436-474).  Its handlers have no try/catch: *)
(* a rejected await leaves the request without an answer (status 0).       *)
(***************************************************************************)
\* new Product(req.body): the schema casts price (always sent, as decimal
\* text) to a Number and keeps the strings as they are; dateAdded defaults to
\* Date.now
MinNewProduct(b) ==
  [id |-> nextOid, name |-> b.name, price |-> DigitsValue(b.price, 0),
   seller |-> b.seller, whatsapp |-> b.whatsapp, condition |-> b.condition,
   description |-> b.description, imagePath |-> b.image, dateAdded |-> clock]

\* POST /api/products
MinCreate(b, fault) ==
  /\ variant = "min"
  /\ nextOid <= MaxOid
  /\ LET q == [NewReq("create", b, <<>>) EXCEPT !.fault = fault]
         product == MinNewProduct(b)
     IN IF fault
          THEN /\ out' = [q EXCEPT !.pc = "hung"]
               /\ UNCHANGED <<db, issued>>
          ELSE /\ db' = db \cup {product}
               /\ issued' = issued \cup {product.id}
               /\ out' = Answer([q EXCEPT !.product = <<product>>], 200, "")
  /\ nextOid' = nextOid + 1
  /\ UNCHANGED <<variant, clock, file, images, pendingDestroy, reqs, deletedOk,
                 inputs>>

\* GET /api/products
MinList(fault) ==
  /\ variant = "min"
  /\ LET q == [NewReq("list", NoBody, <<>>) EXCEPT !.fault = fault]
     IN IF fault
          THEN out' = [q EXCEPT !.pc = "hung"]
          ELSE \E res \in Sorted(db, sortOption("")) :
                 out' = Answer([q EXCEPT !.result = res], 200, "")
  /\ UNCHANGED <<variant, clock, file, db, images, pendingDestroy, nextOid,
                 reqs, issued, deletedOk, inputs>>

(***************************************************************************)
(* Specifications.                                                         *)
(***************************************************************************)
InitDoc ==
  /\ variant = "doc"
  /\ clock = Epoch
  /\ file = NoFile
  /\ db = {}
  /\ images = {}
  /\ pendingDestroy = {}
  /\ nextOid = 1
  /\ reqs = [r \in Slots |-> NoReq]
  /\ out = NoReq
  /\ issued = {}
  /\ deletedOk = {}
  /\ inputs = {}

InitMin ==
  /\ variant = "min"
  /\ clock = Epoch
  /\ file = NoFile
  /\ db = {}
  /\ images = {}
  /\ pendingDestroy = {}
  /\ nextOid = 1
  /\ reqs = [r \in Slots |-> NoReq]
  /\ out = NoReq
  /\ issued = {}
  /\ deletedOk = {}
  /\ inputs = {}

\* The document store with listings in it, to be listed: any set of up to
\* MaxListed listings that differ in name, price and date.
ListNames == {<<"D", "a">>, <<"a">>}
ListPrices == {5, 7}
ListFields == [name : ListNames, price : ListPrices, dateAdded : Times]

ListDoc(i, f) ==
  [id |-> i, name |-> f.name, price |-> f.price, seller |-> <<"A">>,
   whatsapp |-> W_OK, condition |-> "Good", description |-> <<"x">>,
   imagePath |-> <<"i">>, imagePublicId |-> <<PublicId(Epoch)>>,
   dateAdded |-> f.dateAdded, isActive |-> TRUE]

InitList ==
  /\ variant = "doc"
  /\ clock = Epoch + MaxTicks
  /\ file = NoFile
  /\ \E I \in SUBSET (1..MaxListed) : \E f \in [I -> ListFields] :
       db = {ListDoc(i, f[i]) : i \in I}
  /\ images = {PublicId(Epoch)}
  /\ pendingDestroy = {}
  /\ nextOid = MaxListed + 1
  /\ reqs = [r \in Slots |-> NoReq]
  /\ out = NoReq
  /\ issued = 1..MaxListed
  /\ deletedOk = {}
  /\ inputs = {}

Init == InitFile \/ InitDoc \/ InitMin

NextFile ==
  \/ \E r \in Slots, b \in Bodies, fault \in BOOLEAN : FileCreate(r, b, fault)
  \/ \E r \in Slots, fault \in BOOLEAN : FileCreatePut(r, fault)
  \/ \E r \in Slots, p \in FileParams, fault \in BOOLEAN : FileDelete(r, p, fault)
  \/ \E r \in Slots, fault \in BOOLEAN : FileDeletePut(r, fault)
  \/ \E fault \in BOOLEAN : FileList(fault)
  \/ Tick

NextDoc ==
  \/ \E r \in Slots, b \in Bodies, fault \in BOOLEAN : DocCreate(r, b, fault)
  \/ \E r \in Slots, fault \in BOOLEAN : DocCreateSave(r, fault)
  \/ \E pid \in Times, fault \in BOOLEAN : DestroyServed(pid, fault)
  \/ \E r \in Slots, b \in Bodies, fault \in BOOLEAN : Doc64Create(r, b, fault)
  \/ \E r \in Slots, fault \in BOOLEAN : Doc64CreateSave(r, fault)
  \/ \E p \in DocParams, u \in Updates, fault \in BOOLEAN : DocUpdate(p, u, fault)
  \/ \E r \in Slots, p \in DocParams, fault \in BOOLEAN : DocDelete(r, p, fault)
  \/ \E r \in Slots, fault \in BOOLEAN : DocDeleteDestroy(r, fault)
  \/ \E r \in Slots, fault \in BOOLEAN : DocDeleteRemove(r, fault)
  \/ \E p \in DocParams, fault \in BOOLEAN : DocGet(p, fault)
  \/ \E query \in SortQueries, fault \in BOOLEAN : DocList(query, fault)
  \/ Tick

NextMin ==
  \/ \E b \in Bodies, fault \in BOOLEAN : MinCreate(b, fault)
  \/ \E fault \in BOOLEAN : MinList(fault)
  \/ Tick

Next ==
  \/ \E r \in Slots, b \in Bodies, fault \in BOOLEAN : FileCreate(r, b, fault)
  \/ \E r \in Slots, fault \in BOOLEAN : FileCreatePut(r, fault)
  \/ \E r \in Slots, p \in FileParams, fault \in BOOLEAN : FileDelete(r, p, fault)
  \/ \E r \in Slots, fault \in BOOLEAN : FileDeletePut(r, fault)
  \/ \E fault \in BOOLEAN : FileList(fault)
  \/ \E r \in Slots, b \in Bodies, fault \in BOOLEAN : DocCreate(r, b, fault)
  \/ \E r \in Slots, fault \in BOOLEAN : DocCreateSave(r, fault)
  \/ \E pid \in Times, fault \in BOOLEAN : DestroyServed(pid, fault)
  \/ \E r \in Slots, b \in Bodies, fault \in BOOLEAN : Doc64Create(r, b, fault)
  \/ \E r \in Slots, fault \in BOOLEAN : Doc64CreateSave(r, fault)
  \/ \E p \in DocParams, u \in Updates, fault \in BOOLEAN : DocUpdate(p, u, fault)
  \/ \E r \in Slots, p \in DocParams, fault \in BOOLEAN : DocDelete(r, p, fault)
  \/ \E r \in Slots, fault \in BOOLEAN : DocDeleteDestroy(r, fault)
  \/ \E r \in Slots, fault \in BOOLEAN : DocDeleteRemove(r, fault)
  \/ \E p \in DocParams, fault \in BOOLEAN : DocGet(p, fault)
  \/ \E query \in SortQueries, fault \in BOOLEAN : DocList(query, fault)
  \/ \E b \in Bodies, fault \in BOOLEAN : MinCreate(b, fault)
  \/ \E fault \in BOOLEAN : MinList(fault)
  \/ Tick

\* Creates with bodies that differ in name, price and condition, some with a
\* name that is not trimmed, deletes and fetches by id; no update.
RoundTripBodies ==
  {b \in [name : {<<"D">>, <<" ", "D">>}, price : {<<"5">>, <<"1", "2">>},
          seller : {<<"A">>}, whatsapp : {W_OK}, condition : {"Good", "Fair"},
          description : {<<"x">>}, image : {<<"i">>}] :
     b.condition = "Fair" <=> b.price = <<"1", "2">>}

NextRoundTrip ==
  \/ \E r \in Slots, b \in RoundTripBodies, fault \in BOOLEAN :
       DocCreate(r, b, fault)
  \/ \E r \in Slots, fault \in BOOLEAN : DocCreateSave(r, fault)
  \/ \E pid \in Times, fault \in BOOLEAN : DestroyServed(pid, fault)
  \/ \E r \in Slots, p \in DocParams, fault \in BOOLEAN : DocDelete(r, p, fault)
  \/ \E r \in Slots, fault \in BOOLEAN : DocDeleteDestroy(r, fault)
  \/ \E r \in Slots, fault \in BOOLEAN : DocDeleteRemove(r, fault)
  \/ \E p \in DocParams, fault \in BOOLEAN : DocGet(p, fault)
  \/ Tick

NextList ==
  \E query \in Queries, fault \in BOOLEAN : DocList(query, fault)

SpecFile == InitFile /\ [][NextFile]_vars
SpecDoc == InitDoc /\ [][NextDoc]_vars
SpecMin == InitMin /\ [][NextMin]_vars
Spec == Init /\ [][Next]_vars
SpecList == InitList /\ [][NextList]_vars
SpecRoundTrip == InitDoc /\ [][NextRoundTrip]_vars


(***************************************************************************)
(* Properties.                                                             *)
(***************************************************************************)
Answered == out.pc = "done"
Creates == {"create", "create64"}

\* the PUT of the request in slot r is served in this step
PutServed(r) == reqs[r].pc = "put" /\ reqs'[r] # reqs[r]

\* the request in slot r read products.json and its token, and the file has
\* been rewritten since
StaleToken(r) == reqs[r].hasSha /\ file.exists /\ reqs[r].sha # file.content

\* C1: in the file-backed store a create or delete whose conditional write
\* arrives with the token of content that another writer has replaced since
\* is rejected: the request ends there with a failure answer and the file
\* keeps what the earlier writer wrote.
C1_StaleWriteRejected ==
  [][\A r \in Slots :
       PutServed(r) /\ StaleToken(r)
         => /\ file' = file
            /\ reqs'[r].pc = "idle"
            /\ out'.pc = "done"
            /\ out'.status = 500]_vars

\* a create was refused for its stale token, with no failure in transit,
\* while the file holds the listing a concurrent create wrote
C1_Witness ==
  /\ variant = "file"
  /\ Answered
  /\ out.handler = "create"
  /\ out.stale
  /\ out.hasSha
  /\ ~out.fault
  /\ out.status = 500
  /\ Len(file.content) = Len(out.content)
  /\ file.content # out.content

\* the defects the create validation is there to refuse
Invalid(b) == ~FieldsPresent(b) \/ ~WhatsappOk(b.whatsapp) \/ ~Truthy(b.image)

\* C2: a create request (multipart, base64, file-backed) with a missing
\* required field, a whatsapp value outside ^91\d{10}$ or no image is
\* answered 400 by the step that handles it, and that step leaves the stored
\* listings as they were.
C2_InvalidCreateRefused ==
  [][(/\ variant' \in {"doc", "file"}
      /\ out'.handler \in Creates
      /\ out'.pc = "done"
      /\ ~out'.fault
      /\ Invalid(out'.body))
       => /\ out'.status = 400
          /\ db' = db
          /\ file' = file]_vars

\* a multipart create with an over-long number was refused while the
\* collection held a listing
C2_Witness ==
  /\ variant = "doc"
  /\ Answered
  /\ out.handler = "create"
  /\ out.body.whatsapp = W_LONG
  /\ out.status = 400
  /\ db # {}

\* C3: in every server, every stored listing has a whatsapp value matching
\* ^91\d{10}$, and a create or update carrying any other value leaves the
\* store as it was.
C3_WhatsappAlwaysValid ==
  /\ [](/\ \A d \in db : WhatsappOk(d.whatsapp)
        /\ \A i \in 1..Len(file.content) : WhatsappOk(file.content[i].whatsapp))
  /\ [][(/\ out'.pc = "done"
         /\ \/ out'.handler \in Creates /\ ~WhatsappOk(out'.body.whatsapp)
            \/ out'.handler = "update" /\ out'.upd.field = "whatsapp"
                 /\ ~WhatsappOk(out'.upd.text))
          => db' = db /\ file' = file]_vars

\* the id a delete request carries, when it is the id of no stored listing
NoSuchId(q) ==
  IF variant = "file"
    THEN ~IsNumeric(q.id) \/ ParseInt(q.id) \notin Ids(file.content)
    ELSE ~ValidOid(q.id) \/ Oid(q.id) \notin {d.id : d \in db}

\* C4: a delete request for an id that no stored listing has is answered 404
\* (when no call fails in transit) and changes neither the store nor the
\* images, whatever the state of the store.
C4_DeleteMissingIs404 ==
  [][(/\ out'.handler = "delete"
      /\ out'.pc = "done"
      /\ out'.product = <<>>
      /\ ~out'.fault
      /\ NoSuchId(out'))
       => /\ out'.status = 404
          /\ db' = db
          /\ file' = file
          /\ images' = images]_vars

\* C5: a list request answered after a delete of an id succeeded returns no
\* listing with that id, and a document-store delete answers success only
\* after the image its listing names has been destroyed.
C5_DeletedStaysGone ==
  /\ (Answered /\ out.handler = "list" /\ out.status = 200)
       => Ids(out.result) \cap deletedOk = {}
  /\ (variant = "doc" /\ Answered /\ out.handler = "delete" /\ out.status = 200
        /\ out.product[1].imagePublicId # <<>>)
       => out.destroyed

\* a successful create answers in this step
CreateSucceeds ==
  /\ out'.pc = "done"
  /\ out'.handler \in Creates
  /\ out'.status \in {200, 201}

\* C6: no two stored listings share an id, and the id of a successful create
\* was never given to an earlier one.
C6_IdsUniqueNeverReused ==
  /\ [](/\ \A d, e \in db : d.id = e.id => d = e
        /\ \A i, j \in 1..Len(file.content) :
             file.content[i].id = file.content[j].id => i = j)
  /\ [][CreateSucceeds => out'.product[1].id \notin issued]_vars

\* C7: a listing keeps the dateAdded it was created with for as long as it is
\* stored.
C7_DateAddedImmutable ==
  [][\A d \in db, e \in db' : d.id = e.id => d.dateAdded = e.dateAdded]_vars

\* the last step answered a multipart create whose save() did not store the
\* document
SaveFailed ==
  /\ variant = "doc"
  /\ Answered
  /\ out.handler = "create"
  /\ out.product # <<>>
  /\ out.product[1] \notin db

\* C8: when the record write of a multipart create fails after the upload,
\* the handler answers 500, has issued the destroy of the uploaded image, and
\* no record of the create is stored.
C8_FailedSaveCompensated ==
  SaveFailed
    => /\ out.status = 500
       /\ out.product[1].imagePublicId[1] \in pendingDestroy
       /\ \A d \in db : d.id # out.product[1].id

\* a save failed in transit and the destroy of the uploaded image is under way
C8_Witness ==
  /\ SaveFailed
  /\ out.fault
  /\ out.status = 500
  /\ out.product[1].imagePublicId[1] \in pendingDestroy \cap images

\* C9: a request whose backend call failed is answered, and with status 500.
C9_BackendFailureIs500 ==
  out.fault => Answered /\ out.status = 500

FieldsMsgs ==
  {"All fields are required", "All fields including image are required"}
NumberMsgs ==
  {"Invalid WhatsApp number format",
   "WhatsApp number should start with 91 followed by 10 digits"}
\* only the multipart handler checks the image on its own
ImageMsgs(q) ==
  IF variant = "doc" /\ q.handler = "create"
    THEN {"Product image is required"}
    ELSE FieldsMsgs

Refused ==
  /\ variant \in {"doc", "file"}
  /\ Answered
  /\ out.handler \in Creates
  /\ out.status = 400

\* C10 as the specification states it: the 400 answer names the first
\* failing check in the order fields, whatsapp format, image.
C10_OrderAsClaimed ==
  Refused
    => /\ ~FieldsPresent(out.body) => out.msg \in FieldsMsgs
       /\ FieldsPresent(out.body) /\ ~WhatsappOk(out.body.whatsapp)
            => out.msg \in NumberMsgs
       /\ FieldsPresent(out.body) /\ WhatsappOk(out.body.whatsapp)
            => out.msg \in ImageMsgs(out)

\* C10: the 400 answer names the first failing check in the order fields,
\* image, whatsapp format.
C10_ImageBeforeNumber ==
  Refused
    => /\ ~FieldsPresent(out.body) => out.msg \in FieldsMsgs
       /\ FieldsPresent(out.body) /\ ~Truthy(out.body.image)
            => out.msg \in ImageMsgs(out)
       /\ FieldsPresent(out.body) /\ Truthy(out.body.image)
            => out.msg \in NumberMsgs

\* a multipart create with every field, a malformed number and no image was
\* refused for the image
C10_Witness ==
  /\ Refused
  /\ variant = "doc"
  /\ out.handler = "create"
  /\ FieldsPresent(out.body)
  /\ ~WhatsappOk(out.body.whatsapp)
  /\ ~Truthy(out.body.image)
  /\ out.msg = "Product image is required"

ValidInput(b) ==
  /\ \A k \in {"name", "seller", "description", "whatsapp"} :
       Truthy(b[k]) /\ b[k] = Trim(b[k])
  /\ Truthy(b.price)
  /\ \A i \in 1..Len(b.price) : b.price[i] \in Digit
  /\ DigitsValue(b.price, 0) >= 1
  /\ WhatsappOk(b.whatsapp)
  /\ b.condition \in Conditions
  /\ Truthy(b.image)

\* the fetch-by-id just answered asked for the id answered to the create c,
\* no delete of that id has succeeded and the database call did not fail
FetchOf(c) ==
  /\ out.handler = "get"
  /\ Answered
  /\ ValidOid(out.id)
  /\ Oid(out.id) = c.id
  /\ c.id \notin deletedOk
  /\ ~out.fault

\* C12: in the document store a fetch-by-id of the id a successful create
\* answered, with no update or delete of that id in between, answers 200 with
\* a listing whose name, price, seller, whatsapp, condition and description
\* are the values of the create's input, when that input was valid.
C12_CreateFetchRoundTrip ==
  \A c \in inputs :
    FetchOf(c) /\ ValidInput(c.body)
      => /\ out.status = 200
         /\ out.product # <<>>
         /\ LET p == out.product[1]
                b == c.body
            IN /\ p.id = c.id
               /\ p.name = b.name
               /\ p.price = DigitsValue(b.price, 0)
               /\ p.seller = b.seller
               /\ p.whatsapp = b.whatsapp
               /\ p.condition = b.condition
               /\ p.description = b.description

\* a fetch answers the listing of a valid create with a two-digit price while
\* the store holds another listing
C12_Witness ==
  \E c \in inputs :
    /\ FetchOf(c)
    /\ ValidInput(c.body)
    /\ c.body.price = <<"1", "2">>
    /\ out.status = 200
    /\ Cardinality(db) = 2

\* C13: in the file-backed store, whatever the interleaving of creates and
\* deletes (a create whose read of products.json failed sends its one-element
\* array without a token), every product whose create was answered with
\* success is in products.json as long as no delete of its id was answered
\* with success, and no product whose delete was answered with success is in
\* products.json.
C13_NoLostUpdate ==
  variant = "file"
    => /\ \A id \in issued \ deletedOk : id \in Ids(file.content)
       /\ \A id \in deletedOk : id \notin Ids(file.content)

\* a delete of the listing d is under way: its image destroy has been served
\* and its findByIdAndDelete has not
DeleteUnderWay(d) ==
  \E r \in Slots : /\ reqs[r].handler = "delete"
                   /\ reqs[r].pc = "remove"
                   /\ reqs[r].product[1].id = d.id

\* C14: in the document store, whichever backend calls fail, every stored
\* listing references an image the image host still holds, but for a listing
\* whose delete is under way: no delete that has ended leaves a stored listing
\* whose image it destroyed.
C14_StoredImagesExist ==
  variant = "doc"
    => \A d \in db :
         d.imagePublicId # <<>> /\ ~DeleteUnderWay(d)
           => d.imagePublicId[1] \in images

====
